---- MODULE Spec2Model ----
(***************************************************************************)
(* Model of voidpp_web_tools/remote_controller_daemon.py: the `rpc`        *)
(* decorator (origin-aware call wrapper), the module-level jsonrpc         *)
(* dispatcher filled by RemoteControllerDeamon.__init__, and the           *)
(* single-threaded werkzeug serving loop around command_handler.           *)
(*                                                                         *)
(* Python values are records [t, v]: t is the Python type name and v the   *)
(* printable content as a sequence of string pieces.  JSON values use the  *)
(* JSON type names, so json.dumps / json.loads are real conversions.       *)
(***************************************************************************)
EXTENDS Integers, Sequences, FiniteSets, TLC

\* ---------------------------------------------------------------- bounds
\* Number of client processes that have a call in progress at one time.
MaxActive == 1
\* The same number in the specification of concurrent callers.
MaxConcurrent == 2
\* Number of register_method calls made after the construction.
MaxRegistrations == 1

\* ------------------------------------------------------------- processes
\* The pids of the docstring workflow: 42 the daemon, 100 and 101 shells.
DaemonPid == 42
Pids == {DaemonPid, 100, 101}
\* Daemon.get_pid() when no pid file exists: equal to no os.getpid().
NoPid == 0
\* What the pid file may hold: nothing, the daemon's pid, or the pid of
\* another process (the shells are interchangeable, one stands for both).
RecordablePids == {NoPid, DaemonPid, 100}

\* ---------------------------------------------------------- Python values
PyStr(pieces) == [t |-> "str", v |-> pieces]
PyNone == [t |-> "NoneType", v |-> <<>>]
PyTuple == [t |-> "tuple", v |-> <<"1", "2">>]
PyList == [t |-> "list", v |-> <<"1", "2">>]
PySet == [t |-> "set", v |-> <<"1", "2">>]
\* The parsed `error` member of a response, as a Python dict.
PyErrorDict(message) == [t |-> "dict", v |-> <<"code", "message">> \o message]

\* Argument values a caller may pass.
ArgValues == {PyStr(<<"p1value">>), PyNone, PyTuple, PySet}

\* str(x), as "{}".format(x) renders it.
PyFormat(x) ==
    CASE x.t = "str" -> x.v
      [] x.t = "NoneType" -> <<"None">>
      [] x.t = "tuple" -> <<"(1, 2)">>
      [] x.t = "list" -> <<"[1, 2]">>
      [] x.t = "set" -> <<"{1, 2}">>
      [] OTHER -> <<"{...}">>

\* json.dumps raises TypeError on a value it cannot encode.
JsonSerializable(x) == x.t \in {"str", "NoneType", "tuple", "list", "dict"}

\* json.dumps of one value: tuples and lists both become arrays.
JsonDumps(x) ==
    CASE x.t = "str" -> [t |-> "string", v |-> x.v]
      [] x.t = "NoneType" -> [t |-> "null", v |-> <<>>]
      [] x.t \in {"tuple", "list"} -> [t |-> "array", v |-> x.v]
      [] OTHER -> [t |-> "object", v |-> x.v]

\* json.loads of one value: arrays come back as lists.
JsonLoads(j) ==
    CASE j.t = "string" -> [t |-> "str", v |-> j.v]
      [] j.t = "null" -> [t |-> "NoneType", v |-> <<>>]
      [] j.t = "array" -> [t |-> "list", v |-> j.v]
      [] OTHER -> [t |-> "dict", v |-> j.v]

\* Keyword arguments are sets of [k, v] entries with distinct keys.
ParamNames == {"param1"}
KwargSets == {{}} \cup {{[k |-> n, v |-> x]} : n \in ParamNames, x \in ArgValues}
\* Positional arguments after `self`.
PosArgs == {<<>>, <<PyStr(<<"p1value">>)>>}
\* The argument lists of a call: keyword arguments alone, or a positional
\* argument alone or together with a keyword argument of the same name.
CallArgs == {a \in PosArgs \X KwargSets :
               a[1] = <<>> \/ a[2] \in {{}, {[k |-> "param1", v |-> PyStr(<<"p1value">>)]}}}

KwSerializable(kw) == \A e \in kw : JsonSerializable(e.v)
KwDumps(kw) == {[k |-> e.k, v |-> JsonDumps(e.v)] : e \in kw}
KwLoads(jkw) == {[k |-> e.k, v |-> JsonLoads(e.v)] : e \in jkw}

\* ------------------------------------------------------ outcomes of calls
Return(x) == [kind |-> "return", val |-> x]
Raise(type, message) == [kind |-> "raise", val |-> [t |-> type, v |-> message]]
NoOutcome == [kind |-> "none", val |-> PyNone]

\* --------------------------------------------------- the exposed methods
\* Methods of the Handler class marked with @rpc; each is f(self, param1).
Methods == {"reload", "echo", "members", "crash", "deny"}
\* A name no method of the class has.
UnknownNames == {"bogus"}
Names == Methods \cup UnknownNames

\* Code carried by the JSONRPCDispatchException the `deny` method raises.
DenyCode == 1

\* The body of the underlying (undecorated) method, applied to param1.
Body(m, x) ==
    CASE m = "reload" -> Return(PyStr(<<"reload: ">> \o PyFormat(x)))
      [] m = "echo" -> Return(x)
      [] m = "members" -> Return(PySet)
      [] m = "crash" -> Raise("Exception", <<"boom">>)
      [] OTHER -> Raise("JSONRPCDispatchException", <<"denied">>)

\* method(self, *pos, **kw): Python binds the arguments to (self, param1)
\* and raises TypeError when they do not fit the signature.
Invoke(m, pos, kw) ==
    IF Len(pos) = 1 /\ kw = {} THEN Body(m, pos[1])
    ELSE IF Len(pos) = 0 /\ Cardinality(kw) = 1
         THEN Body(m, (CHOOSE e \in kw : TRUE).v)
         ELSE Raise("TypeError", <<"bad arguments">>)

\* --------------------------------------------------- JSON-RPC responses
\* Error codes of the jsonrpc package (JSON-RPC 2.0 predefined errors).
MethodNotFoundCode == -32601
InvalidParamsCode == -32602
ServerErrorCode == -32000

\* A response object: exactly the member named by `has` is present.
ResultResponse(j) == [has |-> "result", result |-> j, code |-> 0, message |-> <<>>]
ErrorResponse(code, message) ==
    [has |-> "error", result |-> [t |-> "null", v |-> <<>>], code |-> code, message |-> message]
NoResponse == [has |-> "", result |-> [t |-> "null", v |-> <<>>], code |-> 0, message |-> <<>>]

\* What requests.post(...) yields to the client: a JSON body, a non-JSON
\* body (werkzeug's 500 page), or a failure to connect / a dropped connection.
JsonReply(resp) == [kind |-> "json", resp |-> resp]
Html500 == [kind |-> "html", resp |-> NoResponse]
Refused == [kind |-> "refused", resp |-> NoResponse]
Aborted == [kind |-> "aborted", resp |-> NoResponse]
NoReply == [kind |-> "none", resp |-> NoResponse]

\* The endpoint of the daemon: the defaults of __init__.
Host == "localhost"
Port == 64042
\* "http://{}:{}/jsonrpc".format(host, port)
Url(host, port) == <<"http://", host, ":", ToString(port), "/jsonrpc">>

\* A request on the wire and the registry's callables.
NoRequest == [from |-> NoPid, url |-> <<>>, method |-> "", params |-> {}, jsonrpc |-> "", id |-> 0]
Bound(obj, m) == [obj |-> obj, m |-> m]
Missing == Bound("", "")

\* The error the response manager builds for an exception of the callable:
\* a JSONRPCDispatchException carries its own error, a TypeError of a
\* callable that is not a plain function is reported as invalid params,
\* everything else as the generic server error.
ErrorFor(exc) ==
    CASE exc.t = "JSONRPCDispatchException" -> ErrorResponse(DenyCode, exc.v)
      [] exc.t = "TypeError" -> ErrorResponse(InvalidParamsCode, <<"Invalid params">>)
      [] OTHER -> ErrorResponse(ServerErrorCode, <<"Server error">>)

\* A handler that lets the callable's exception escape.
HandlerReplyPropagating(o) ==
    IF o.kind = "return" /\ JsonSerializable(o.val)
    THEN JsonReply(ResultResponse(JsonDumps(o.val)))
    ELSE Html500

\* command_handler once the callable has finished with outcome `o`:
\* the manager wraps it and `response.json` serialises it; a result that
\* json.dumps rejects makes the handler itself raise (HTTP 500, HTML body).
HandlerReply(o) ==
    IF o.kind = "return"
    THEN IF JsonSerializable(o.val)
         THEN JsonReply(ResultResponse(JsonDumps(o.val)))
         ELSE Html500
    ELSE JsonReply(ErrorFor(o.val))

\* A lookup whose KeyError escapes the handler.
NotFoundReplyKeyError == Html500

\* The reply for a method name the dispatcher has no entry for.
NotFoundReply == JsonReply(ErrorResponse(MethodNotFoundCode, <<"Method not found">>))

\* "Error: {}. (see logs for details)".format(message)
ErrorString(message) == PyStr(<<"Error: ">> \o message \o <<". (see logs for details)">>)

\* An unpacking that hands the parsed error member to the caller.
ClientUnpackRawError(r) ==
    CASE r.kind \in {"refused", "aborted"} -> Return(PyNone)
      [] r.kind = "html" -> Raise("ValueError", <<"No JSON object could be decoded">>)
      [] r.resp.has = "result" -> Return(JsonLoads(r.resp.result))
      [] OTHER -> Return(PyErrorDict(r.resp.message))

\* rpc_wrapper, remote branch after the post: what the caller gets.
ClientUnpack(r) ==
    CASE r.kind \in {"refused", "aborted"} -> Return(PyNone)
      [] r.kind = "html" -> Raise("ValueError", <<"No JSON object could be decoded">>)
      [] r.resp.has = "result" -> Return(JsonLoads(r.resp.result))
      [] OTHER -> Return(ErrorString(r.resp.message))

\* A local branch that swallows the callable's exception.
DirectCallCatching(m, pos, kw) ==
    IF Invoke(m, pos, kw).kind = "raise" THEN Return(PyNone) ELSE Invoke(m, pos, kw)

\* A local branch that forwards the keyword arguments only.
DirectCallKwargsOnly(m, pos, kw) == Invoke(m, <<>>, kw)

\* rpc_wrapper, local branch: method(*args, **kwargs).
DirectCall(m, pos, kw) == Invoke(m, pos, kw)

\* ------------------------------------------------------------------ state
VARIABLES
    recordedPid,  \* Daemon.get_pid(): the pid in the pid file, NoPid if none
    serverState,  \* run(): "down", "serving", "handling" or "blocked"
    serverPid,    \* os.getpid() of the process inside run(), NoPid if down
    dispatcher,   \* jsonrpc.dispatcher of the daemon process: name -> callable
    constructed,  \* the daemon objects constructed in the daemon process
    registrations,\* register_method calls made after the construction
    lastReg,      \* the key and callable of the latest registration
    servedBy,     \* per process: the callable the server answered its request with
    queue,        \* requests accepted by the socket, not yet handled
    current,      \* the request command_handler is working on
    pc,           \* per process: "idle", "waiting", "done", "server"
    call,         \* per process: the wrapped call (or raw post) in progress
    outcome,      \* per process: what the call gave its caller
    reply,        \* per process: what requests.post received
    posts,        \* per process: requests.post calls made by the call
    ran,          \* per process: the method body ran in this process
    route,        \* per process: branch rpc_wrapper took for the call
    firstRoute    \* branch rpc_wrapper took the first time it was called

\* The module-level registry and the record of what was put into it.
registry == <<dispatcher, constructed, registrations, lastReg>>

vars == <<recordedPid, serverState, serverPid, registry, servedBy, queue,
          current, pc, call, outcome, reply, posts, ran, route, firstRoute>>

\* `same` keeps whether os.getpid() equalled get_pid() when the call was made.
NoCall == [mode |-> "none", m |-> "", pos |-> <<>>, kw |-> {}, same |-> FALSE]

\* The daemon objects a process may construct: two instances of Handler.
Objects == {"A", "B"}
\* dir(self) lists the names in alphabetical order; this one comes last.
LastExposed == "reload"

\* The registry as __init__ leaves it: every @rpc method under its own name.
InitialDispatcher == [n \in Names |-> IF n \in Methods THEN Bound("A", n) ELSE Missing]

Init ==
    /\ recordedPid = NoPid
    /\ serverState = "down"
    /\ serverPid = NoPid
    /\ dispatcher = InitialDispatcher
    /\ constructed = {"A"}
    /\ registrations = 0
    /\ lastReg = [key |-> LastExposed, callable |-> Bound("A", LastExposed)]
    /\ servedBy = [p \in Pids |-> Missing]
    /\ queue = <<>>
    /\ current = NoRequest
    /\ pc = [p \in Pids |-> "idle"]
    /\ call = [p \in Pids |-> NoCall]
    /\ outcome = [p \in Pids |-> NoOutcome]
    /\ reply = [p \in Pids |-> NoReply]
    /\ posts = [p \in Pids |-> 0]
    /\ ran = [p \in Pids |-> FALSE]
    /\ route = [p \in Pids |-> "none"]
    /\ firstRoute = "none"

\* The client processes that have a call in progress.
Active == {q \in Pids : pc[q] \in {"waiting", "done"}}

\* A routing decision that is remembered from the first call on.
call_from_server_memo(p) ==
    IF firstRoute = "none" THEN p = recordedPid ELSE firstRoute = "local"

\* A routing decision against the pid the daemon was given at first.
call_from_server_fixed(p) == p = DaemonPid

\* call_from_server = os.getpid() == controller_instance.get_pid()
call_from_server(p) == p = recordedPid

\* A payload without the keyword arguments.
PayloadNoParams(p, m, kw) ==
    [from |-> p, url |-> Url(Host, Port), method |-> m, params |-> {},
     jsonrpc |-> "2.0", id |-> 0]

\* The request of the remote branch: the url of the handle's host and port,
\* and the payload with method.__name__ and the kwargs only.
Payload(p, m, kw) ==
    [from |-> p, url |-> Url(Host, Port), method |-> m, params |-> KwDumps(kw),
     jsonrpc |-> "2.0", id |-> 0]

\* A process calls handler.m(*pos, **kw) through rpc_wrapper.
Call(p, m, pos, kw) ==
    /\ UNCHANGED servedBy
    /\ pc[p] = "idle"
    /\ call' = [call EXCEPT ![p] =
                  [mode |-> "rpc", m |-> m, pos |-> pos, kw |-> kw, same |-> (p = recordedPid)]]
    /\ IF call_from_server(p)
       THEN /\ route' = [route EXCEPT ![p] = "local"]
            /\ firstRoute' = IF firstRoute = "none" THEN "local" ELSE firstRoute
            /\ outcome' = [outcome EXCEPT ![p] = DirectCall(m, pos, kw)]
            /\ ran' = [ran EXCEPT ![p] = TRUE]
            /\ pc' = [pc EXCEPT ![p] = "done"]
            /\ UNCHANGED <<posts, reply, queue>>
       ELSE /\ route' = [route EXCEPT ![p] = "remote"]
            /\ firstRoute' = IF firstRoute = "none" THEN "remote" ELSE firstRoute
            /\ UNCHANGED ran
            /\ IF ~KwSerializable(kw)
               THEN \* json.dumps(payload) raises before anything is sent
                    /\ outcome' = [outcome EXCEPT ![p] =
                                     Raise("TypeError", <<"is not JSON serializable">>)]
                    /\ pc' = [pc EXCEPT ![p] = "done"]
                    /\ UNCHANGED <<posts, reply, queue>>
               ELSE /\ posts' = [posts EXCEPT ![p] = @ + 1]
                    /\ IF serverState = "down"
                       THEN /\ reply' = [reply EXCEPT ![p] = Refused]
                            /\ outcome' = [outcome EXCEPT ![p] = ClientUnpack(Refused)]
                            /\ pc' = [pc EXCEPT ![p] = "done"]
                            /\ UNCHANGED queue
                       ELSE /\ queue' = Append(queue, Payload(p, m, kw))
                            /\ pc' = [pc EXCEPT ![p] = "waiting"]
                            /\ UNCHANGED <<reply, outcome>>
    /\ UNCHANGED <<recordedPid, serverState, serverPid, registry, current>>

\* Any HTTP client posts a JSON-RPC request for an arbitrary method name.
RawPost(p, name, kw) ==
    /\ UNCHANGED servedBy
    /\ pc[p] = "idle"
    /\ KwSerializable(kw)
    /\ call' = [call EXCEPT ![p] =
                  [mode |-> "raw", m |-> name, pos |-> <<>>, kw |-> kw, same |-> (p = recordedPid)]]
    /\ posts' = [posts EXCEPT ![p] = @ + 1]
    /\ IF serverState = "down"
       THEN /\ reply' = [reply EXCEPT ![p] = Refused]
            /\ pc' = [pc EXCEPT ![p] = "done"]
            /\ UNCHANGED queue
       ELSE /\ queue' = Append(queue, Payload(p, name, kw))
            /\ pc' = [pc EXCEPT ![p] = "waiting"]
            /\ UNCHANGED reply
    /\ UNCHANGED <<recordedPid, serverState, serverPid, registry,
                   current, outcome, ran, route, firstRoute>>

\* The caller of requests.post gets the reply and rpc_wrapper returns.
ClientReturn(p) ==
    /\ UNCHANGED servedBy
    /\ pc[p] = "waiting"
    /\ reply[p] # NoReply
    /\ outcome' = [outcome EXCEPT ![p] =
                     IF call[p].mode = "rpc" THEN ClientUnpack(reply[p]) ELSE NoOutcome]
    /\ pc' = [pc EXCEPT ![p] = "done"]
    /\ UNCHANGED <<recordedPid, serverState, serverPid, registry, queue,
                   current, call, reply, posts, ran, route, firstRoute>>

\* The caller goes on; the record of the finished call is dropped.
Reset(p) ==
    /\ pc[p] = "done"
    /\ pc' = [pc EXCEPT ![p] = "idle"]
    /\ call' = [call EXCEPT ![p] = NoCall]
    /\ outcome' = [outcome EXCEPT ![p] = NoOutcome]
    /\ reply' = [reply EXCEPT ![p] = NoReply]
    /\ posts' = [posts EXCEPT ![p] = 0]
    /\ ran' = [ran EXCEPT ![p] = FALSE]
    /\ route' = [route EXCEPT ![p] = "none"]
    /\ servedBy' = [servedBy EXCEPT ![p] = Missing]
    /\ UNCHANGED <<recordedPid, serverState, serverPid, registry, queue,
                   current, firstRoute>>

\* run(): a process enters run_simple and starts serving.
run(p) ==
    /\ UNCHANGED servedBy
    /\ p = DaemonPid
    /\ serverState = "down"
    /\ pc[p] = "idle"
    /\ serverState' = "serving"
    /\ serverPid' = p
    /\ pc' = [pc EXCEPT ![p] = "server"]
    /\ UNCHANGED <<recordedPid, registry, queue, current, call, outcome,
                   reply, posts, ran, route, firstRoute>>

\* The processes whose request the server holds (queued or being handled).
Pending == {queue[i].from : i \in 1..Len(queue)} \cup
           (IF current = NoRequest THEN {} ELSE {current.from})

\* The daemon process is stopped: every connection it holds is dropped.
ServerStop ==
    /\ UNCHANGED servedBy
    /\ serverState # "down"
    /\ serverState' = "down"
    /\ serverPid' = NoPid
    /\ queue' = <<>>
    /\ current' = NoRequest
    /\ pc' = [pc EXCEPT ![serverPid] = "idle"]
    /\ reply' = [p \in Pids |->
                   IF p \in Pending /\ p # serverPid THEN Aborted ELSE reply[p]]
    /\ posts' = [posts EXCEPT ![serverPid] = 0]
    /\ UNCHANGED <<recordedPid, registry, call, outcome, ran, route, firstRoute>>

\* The daemon lifecycle writes, replaces or removes the pid file.
RecordPid(v) ==
    /\ UNCHANGED servedBy
    /\ v # recordedPid
    /\ recordedPid' = v
    /\ UNCHANGED <<serverState, serverPid, registry, queue, current, pc,
                   call, outcome, reply, posts, ran, route, firstRoute>>

\* A registration that keeps the entry a name already has.
RegistryPutIfAbsent(d, key, callable) ==
    IF d[key] = Missing THEN [d EXCEPT ![key] = callable] ELSE d

\* dispatcher[key] = callable
RegistryPut(d, key, callable) == [d EXCEPT ![key] = callable]

\* register_method(method, name) with a bound @rpc method of a daemon object:
\* dispatcher[name if name else method.__name__] = method
register_method(obj, m, name) ==
    /\ obj \in constructed
    /\ registrations < MaxRegistrations
    /\ registrations' = registrations + 1
    /\ LET key == IF name # "" THEN name ELSE m IN
         /\ dispatcher' = RegistryPut(dispatcher, key, Bound(obj, m))
         /\ lastReg' = [key |-> key, callable |-> Bound(obj, m)]
    /\ UNCHANGED <<recordedPid, serverState, serverPid, constructed, servedBy, queue,
                   current, pc, call, outcome, reply, posts, ran, route, firstRoute>>

\* __init__ of another daemon object in the same process: every method
\* marked by @rpc is registered under its own name in the module's dispatcher.
construct(obj) ==
    /\ obj \notin constructed
    /\ constructed' = constructed \cup {obj}
    /\ dispatcher' = [n \in Names |->
                        IF n \in Methods
                        THEN RegistryPut(dispatcher, n, Bound(obj, n))[n]
                        ELSE dispatcher[n]]
    /\ lastReg' = [key |-> LastExposed, callable |-> Bound(obj, LastExposed)]
    /\ UNCHANGED <<recordedPid, serverState, serverPid, registrations, servedBy, queue,
                   current, pc, call, outcome, reply, posts, ran, route, firstRoute>>

\* A serving loop that hands every connection to a thread of its own.
CanAcceptThreaded == serverState \in {"serving", "handling"}

\* run_simple(host, port, app) without threaded or processes: the loop
\* takes a connection only when it is not inside a handler.
CanAccept == serverState = "serving"

\* The serving loop takes the next connection; it handles one at a time.
Accept ==
    /\ UNCHANGED servedBy
    /\ CanAccept
    /\ queue # <<>>
    /\ current' = Head(queue)
    /\ queue' = Tail(queue)
    /\ serverState' = "handling"
    /\ UNCHANGED <<recordedPid, serverPid, registry, pc, call, outcome,
                   reply, posts, ran, route, firstRoute>>

\* command_handler: JSONRPCResponseManager.handle looks the name up and calls
\* the registered callable, which is the bound rpc_wrapper, with the params
\* as keyword arguments; the wrapper repeats the pid test in this process.
command_handler ==
    /\ serverState = "handling"
    /\ LET callable == dispatcher[current.method] IN
       IF callable # Missing /\ ~call_from_server(serverPid)
       THEN \* the wrapper posts to the daemon's own endpoint and waits
            /\ serverState' = "blocked"
            /\ queue' = Append(queue, Payload(serverPid, callable.m,
                                                KwLoads(current.params)))
            /\ posts' = [posts EXCEPT ![serverPid] = @ + 1]
            /\ UNCHANGED <<reply, current, servedBy>>
       ELSE /\ reply' = [reply EXCEPT ![current.from] =
                           IF callable = Missing
                           THEN NotFoundReply
                           ELSE HandlerReply(DirectCall(callable.m, <<>>,
                                                        KwLoads(current.params)))]
            /\ servedBy' = [servedBy EXCEPT ![current.from] = callable]
            /\ serverState' = "serving"
            /\ current' = NoRequest
            /\ UNCHANGED <<queue, posts>>
    /\ UNCHANGED <<recordedPid, serverPid, registry, pc, call, outcome,
                   ran, route, firstRoute>>

Next ==
    \/ \E p \in Pids, m \in Methods, a \in CallArgs :
          Cardinality(Active) < MaxActive /\ Call(p, m, a[1], a[2])
    \/ \E p \in Pids, n \in Names :
          Cardinality(Active) < MaxActive /\ RawPost(p, n, {})
    \/ \E p \in Pids : ClientReturn(p)
    \/ \E p \in Pids : Reset(p)
    \/ \E p \in Pids : run(p)
    \/ ServerStop
    \/ \E v \in RecordablePids : RecordPid(v)
    \/ Accept
    \/ command_handler

Spec == Init /\ [][Next]_vars

TypeOK ==
    /\ recordedPid \in RecordablePids
    /\ serverState \in {"down", "serving", "handling", "blocked"}
    /\ Len(queue) <= Cardinality(Pids)
    /\ \A p \in Pids : pc[p] \in {"idle", "waiting", "done", "server"}

\* The fair specification: the serving loop and the blocked callers take
\* their steps whenever they can; starting, stopping and calling are free.
LiveSpec ==
    /\ Spec
    /\ WF_vars(Accept)
    /\ WF_vars(command_handler)
    /\ \A p \in Pids : WF_vars(ClientReturn(p))

\* Concurrent callers: several processes call handler.reload or
\* handler.crash with param1 given by keyword while the daemon serves.
ConcMethods == {"reload", "crash"}
ConcKwargs == {{[k |-> "param1", v |-> PyStr(<<"p1value">>)]}}

ConcNext ==
    \/ \E p \in Pids, m \in ConcMethods, kw \in ConcKwargs :
          Cardinality(Active) < MaxConcurrent /\ Call(p, m, <<>>, kw)
    \/ \E p \in Pids : ClientReturn(p)
    \/ \E p \in Pids : Reset(p)
    \/ \E p \in Pids : run(p)
    \/ ServerStop
    \/ \E v \in RecordablePids : RecordPid(v)
    \/ Accept
    \/ command_handler

ConcSpec == Init /\ [][ConcNext]_vars

\* The registry at work: daemon objects are constructed, methods are
\* registered, and HTTP clients post requests that the server looks up.
RegMethods == {"reload", "echo"}
RegNames == {"", "reload", "bogus"}

RegNext ==
    \/ \E obj \in Objects : construct(obj)
    \/ \E obj \in Objects, m \in RegMethods, n \in RegNames : register_method(obj, m, n)
    \/ \E p \in Pids, n \in Names :
          Cardinality(Active) < MaxActive /\ RawPost(p, n, {})
    \/ \E p \in Pids : ClientReturn(p)
    \/ \E p \in Pids : Reset(p)
    \/ \E p \in Pids : run(p)
    \/ ServerStop
    \/ \E v \in RecordablePids : RecordPid(v)
    \/ Accept
    \/ command_handler

RegSpec == Init /\ [][RegNext]_vars

\* ----------------------------------------------------------------- claims
\* What the undecorated method gives for the arguments of p's call.
Underlying(p) == Invoke(call[p].m, call[p].pos, call[p].kw)
\* p has finished a call made through the wrapper.
Finished(p) == pc[p] = "done" /\ call[p].mode = "rpc"
\* The step in which p enters a wrapped call.
Calls(p) == pc[p] = "idle" /\ pc'[p] \in {"waiting", "done"} /\ call'[p].mode = "rpc"
\* The step in which command_handler finishes the current request.
Handled == serverState = "handling" /\ current' # current /\ serverState' # "down"
\* The sequence m occurs inside the sequence s.
Embeds(s, m) == \E i \in 1..Len(s) : i + Len(m) - 1 <= Len(s) /\ SubSeq(s, i, i + Len(m) - 1) = m

\* C1: a wrapped call made while the caller's pid equals the recorded pid
\* returns exactly the value the underlying callable returns for the same
\* positional and keyword arguments.
C1_LocalReturnsUnderlying ==
    \A p \in Pids :
        (Finished(p) /\ call[p].same /\ Underlying(p).kind = "return")
            => outcome[p] = Underlying(p)

C1_Witness ==
    \E p \in Pids :
        /\ Finished(p) /\ call[p].same
        /\ call[p].pos # <<>>
        /\ outcome[p] = Return(PyStr(<<"reload: ", "p1value">>))

\* C2: a wrapped call made from another pid against a server that answers
\* returns the value the underlying callable returns for the same positional
\* and keyword arguments.
C2_RemoteEqualsLocal ==
    \A p \in Pids :
        (Finished(p) /\ ~call[p].same /\ reply[p].kind \in {"json", "html"}
            /\ Underlying(p).kind = "return")
            => outcome[p] = Underlying(p)

\* C3 (as stated): a wrapped call posts a request iff the pids differ: none
\* and a direct invocation when equal, exactly one and no invocation in the
\* caller's process when they differ.
C3_Original ==
    \A p \in Pids :
        (pc[p] \in {"waiting", "done"} /\ call[p].mode = "rpc")
            => IF call[p].same
               THEN posts[p] = 0 /\ ran[p]
               ELSE posts[p] = 1 /\ ~ran[p]

\* C3 (amended): equal pids give a direct invocation and no request;
\* different pids never run the callable in the caller's process and post
\* exactly one request when the keyword arguments are JSON-serializable,
\* none when they are not.
C3_RequestIffRemote ==
    \A p \in Pids :
        (pc[p] \in {"waiting", "done"} /\ call[p].mode = "rpc")
            => IF call[p].same
               THEN posts[p] = 0 /\ ran[p]
               ELSE /\ ~ran[p]
                    /\ posts[p] = IF KwSerializable(call[p].kw) THEN 1 ELSE 0

C3_Witness ==
    \E p \in Pids :
        /\ pc[p] = "waiting" /\ call[p].mode = "rpc" /\ ~call[p].same
        /\ posts[p] = 1 /\ ~ran[p]
        /\ \E i \in 1..Len(queue) : queue[i].from = p

\* C4: a wrapped call made from another pid while the server is down
\* returns None and raises nothing.
C4_DownGivesNone ==
    [][\A p \in Pids :
          (Calls(p) /\ p # recordedPid /\ serverState = "down")
              => (pc'[p] = "done" /\ outcome'[p] = Return(PyNone))]_vars

\* C5: a remote call that reads a response carrying an error object does
\* not raise; it returns a string that embeds the error's message and never
\* the parsed error object itself.
C5_ErrorBecomesString ==
    \A p \in Pids :
        (Finished(p) /\ reply[p].kind = "json" /\ reply[p].resp.has = "error")
            => /\ outcome[p].kind = "return"
               /\ outcome[p].val.t = "str"
               /\ Embeds(outcome[p].val.v, reply[p].resp.message)
               /\ outcome[p].val # PyErrorDict(reply[p].resp.message)

C5_Witness ==
    \E p \in Pids :
        /\ Finished(p)
        /\ reply[p].resp.code = ServerErrorCode
        /\ outcome[p] = Return(PyStr(<<"Error: ", "Server error", ". (see logs for details)">>))

\* C6: a request naming a method the registry does not hold is answered
\* with a method-not-found error response, and the serving loop is back in
\* its serving state, ready for the next request.
C6_UnknownMethodNotFound ==
    [][(Handled /\ dispatcher[current.method] = Missing)
          => /\ reply'[current.from].kind = "json"
             /\ reply'[current.from].resp.has = "error"
             /\ reply'[current.from].resp.code = MethodNotFoundCode
             /\ serverState' = "serving"]_vars

C6_Witness ==
    \E p \in Pids :
        /\ call[p].m \in UnknownNames
        /\ reply[p].kind = "json"
        /\ reply[p].resp.code = MethodNotFoundCode
        /\ serverState = "serving"

\* The registered callable raises for the current request.
CallableRaises ==
    /\ dispatcher[current.method] # Missing
    /\ Invoke(dispatcher[current.method].m, <<>>, KwLoads(current.params)).kind = "raise"
\* The exception it raises.
RaisedType == Invoke(dispatcher[current.method].m, <<>>, KwLoads(current.params)).val.t

\* C7 (as stated): when the registered callable raises, the reply is an
\* error response with the generic internal-error code and a message, and
\* the serving loop keeps serving.
C7_Original ==
    [][(Handled /\ CallableRaises)
          => /\ reply'[current.from].kind = "json"
             /\ reply'[current.from].resp.has = "error"
             /\ reply'[current.from].resp.code = ServerErrorCode
             /\ reply'[current.from].resp.message # <<>>
             /\ serverState' = "serving"]_vars

\* C7 (amended): when the registered callable raises, the reply is an error
\* response with a code and a message, and the serving loop keeps serving;
\* the code is the generic server-error code unless the exception is a
\* TypeError (invalid-params code) or a JSONRPCDispatchException (its own).
C7_RaiseBecomesError ==
    [][(Handled /\ CallableRaises)
          => /\ reply'[current.from].kind = "json"
             /\ reply'[current.from].resp.has = "error"
             /\ reply'[current.from].resp.message # <<>>
             /\ (reply'[current.from].resp.code = InvalidParamsCode) <=> (RaisedType = "TypeError")
             /\ (reply'[current.from].resp.code = ServerErrorCode)
                    <=> (RaisedType \notin {"TypeError", "JSONRPCDispatchException"})
             /\ serverState' = "serving"]_vars

C7_Witness ==
    \E p \in Pids :
        /\ call[p].m = "crash"
        /\ reply[p] = JsonReply(ErrorResponse(ServerErrorCode, <<"Server error">>))
        /\ serverState = "serving"

\* C8: an error on the client side of a remote call (keyword arguments that
\* cannot be serialized, a reply body that is not JSON) gives the caller
\* the sentinel None; no exception reaches the caller.
C8_ClientErrorsGiveNone ==
    \A p \in Pids :
        (Finished(p) /\ ~call[p].same
            /\ (~KwSerializable(call[p].kw) \/ reply[p].kind = "html"))
            => outcome[p] = Return(PyNone)

\* C9: a remote call that is waiting for its reply eventually returns, also
\* when the server holds the connection and never answers.
C9_WaitingReturns ==
    \A p \in Pids : (pc[p] = "waiting" /\ call[p].mode = "rpc") ~> (pc[p] = "done")

\* C10: every wrapped call routes local exactly when the caller's pid equals
\* the recorded pid at that moment, whatever earlier calls did.
C10_RoutedFresh ==
    [][\A p \in Pids :
          Calls(p) => /\ (route'[p] = "local") <=> (p = recordedPid)
                      /\ ran'[p] <=> (p = recordedPid)]_vars

C10_Witness ==
    \E p \in Pids :
        /\ Finished(p)
        /\ firstRoute = "remote"
        /\ route[p] = "local" /\ ran[p]

\* The requests the server holds, queued or being handled.
Held == {queue[i] : i \in 1..Len(queue)} \cup (IF current = NoRequest THEN {} ELSE {current})

\* C14: no successful remote call gives its caller the value a connection
\* failure gives, so the two outcomes can be told apart.
C14_UnreachableDistinct ==
    \A p \in Pids :
        (Finished(p) /\ ~call[p].same /\ reply[p].kind = "json" /\ reply[p].resp.has = "result")
            => outcome[p] # ClientUnpack(Refused)

\* C15: a wrapped call made while the caller's pid equals the recorded pid
\* raises to the caller exactly the error the underlying callable raises.
C15_LocalRaisesUnchanged ==
    \A p \in Pids :
        (Finished(p) /\ call[p].same /\ Underlying(p).kind = "raise")
            => outcome[p] = Underlying(p)

C15_Witness ==
    \E p \in Pids :
        /\ Finished(p) /\ call[p].same /\ ran[p]
        /\ outcome[p] = Raise("Exception", <<"boom">>)

\* C16: every request a remote call sends goes to http://host:port/jsonrpc
\* of the handle and carries the name the method was registered under at
\* construction, exactly the keyword arguments of the call, "2.0" and id 0.
C16_RequestShape ==
    \A r \in Held :
        (r.from \in Pids /\ call[r.from].mode = "rpc")
            => /\ r.url = <<"http://", "localhost", ":", "64042", "/jsonrpc">>
               /\ r.jsonrpc = "2.0"
               /\ r.id = 0
               /\ r.method = call[r.from].m
               /\ InitialDispatcher[r.method] = Bound("A", call[r.from].m)
               /\ {e.k : e \in r.params} = {e.k : e \in call[r.from].kw}
               /\ \A e \in call[r.from].kw : [k |-> e.k, v |-> JsonDumps(e.v)] \in r.params

C16_Witness ==
    \E r \in Held :
        /\ r.from \in Pids /\ call[r.from].mode = "rpc"
        /\ call[r.from].kw = {[k |-> "param1", v |-> PyTuple]}
        /\ r.params = {[k |-> "param1", v |-> [t |-> "array", v |-> <<"1", "2">>]]}
        /\ r.method = "echo"

\* C17: every response the server sends has exactly one of result and
\* error, so a remote call that reads a response returns through one of the
\* wrapper's two branches.
C17_ExactlyOneMember ==
    \A p \in Pids :
        /\ reply[p].kind \in {"json", "html"} => reply[p].resp.has \in {"result", "error"}
        /\ (Finished(p) /\ reply[p].kind \in {"json", "html"}) => outcome[p].kind = "return"

\* C19: while it handles a request the server never posts a request to its
\* own endpoint, whatever pid is recorded, so it is never left waiting for
\* itself and every accepted request gets its response.
C19_NoSelfRequest ==
    /\ serverState # "blocked"
    /\ \A r \in Held : r.from # serverPid

\* C18: with several callers posting at once the daemon works on one
\* request at a time: the loop takes a request only when no request is being
\* handled, and a request being handled is left only by its own response
\* (or by the daemon stopping).
C18_OneAtATime ==
    [][/\ (current' # current /\ current' # NoRequest)
            => (current = NoRequest /\ serverState = "serving")
       /\ (current' # current /\ current # NoRequest /\ serverState' # "down")
            => (current' = NoRequest /\ reply'[current.from] # NoReply)]_vars

C18_Witness ==
    \E p, q \in Pids :
        /\ p # q
        /\ serverState = "handling" /\ current.from = p
        /\ pc[p] = "waiting" /\ pc[q] = "waiting"
        /\ \E i \in 1..Len(queue) : queue[i].from = q

\* C11: after two callables were registered under one name the registry
\* holds the second under that name, and a request for the name is resolved
\* to the second.
C11_LastRegistrationWins ==
    [][/\ dispatcher'[lastReg'.key] = lastReg'.callable
       /\ (Handled /\ current.method = lastReg.key)
            => servedBy'[current.from] = lastReg.callable]_vars

C11_Witness ==
    \E p \in Pids :
        /\ lastReg = [key |-> "reload", callable |-> Bound("A", "echo")]
        /\ call[p].m = "reload"
        /\ servedBy[p] = Bound("A", "echo")
        /\ reply[p].kind = "json"

\* C12: the registry keeps, in every state after the construction, the
\* mapping the construction gave it.
C12_RegistryFrozen == dispatcher = InitialDispatcher

\* C13: the server of daemon object A resolves every request to a method
\* of A, also when another daemon object exposes a method of the same name.
C13_OwnRegistry ==
    \A p \in Pids : servedBy[p] # Missing => servedBy[p].obj = "A"

====
